---- MODULE Spec2Model ----
(***************************************************************************)
(* Model of the ElevenLabs MCP player.                                     *)
(*                                                                         *)
(*   Spec       the player UI (src/src/mcp-app.tsx), lazy-loading variant  *)
(*              and streaming variant; the variant is fixed at start-up.   *)
(*   SpecServer the tool handlers of the MCP server (src/server.ts,        *)
(*              src/unnamed/part_001).                                     *)
(*   SpecHttp   the GET /audio range file server (src/unnamed/part_002).   *)
(***************************************************************************)
EXTENDS Integers, Sequences, FiniteSets, TLC

\* ------------------------------------------------------------------------
\* Bounds of the model
\* ------------------------------------------------------------------------
\* Longest queue the player model builds.
MaxQueue == 3
\* Longest batch of tracks in one tool result.
MaxBatch == 2
\* Most load_audio calls outstanding at once in the model.
MaxLoads == 2
\* Longest tracks argument of one play_audio call.
MaxTracks == 2
\* Last millisecond of the server clock; it starts at 0.
MaxClock == 1
\* Largest file the range server model serves, in bytes.
MaxFileSize == 2
\* Longest Range header of the model, in tokens.
MaxHeaderLen == 4
MaxNameLen == 3

\* ------------------------------------------------------------------------
\* State
\* ------------------------------------------------------------------------
\* The player UI
VARIABLES
    variant,          \* "lazy" or "streaming": which mcp-app.tsx is running
    tracks,           \* useState<Track[]>: the queue
    activeItem,       \* player.activeItem
    isPlaying,        \* player.isPlaying
    repeatMode,       \* useState<RepeatMode>
    loadingTrackId,   \* useState<string | null>
    inflight,         \* outstanding app.callServerTool("load_audio") calls, per track id
    audioLoop,        \* audio.loop of the <audio> element
    initialized,      \* initializedRef.current
    prevTracksLength, \* prevTracksLengthRef.current
    endedListener,    \* what the registered 'ended' listener has closed over
    lastOp            \* the handler that ran last, with what it did

uiVars == <<variant, tracks, activeItem, isPlaying, repeatMode, loadingTrackId,
            inflight, audioLoop, initialized, prevTracksLength, endedListener, lastOp>>

\* The MCP server
VARIABLES
    clock,    \* Date.now()
    fsFiles,  \* the absolute paths that exist
    call,     \* the tool call being handled: its locals, then its result
    issued    \* the track ids returned by the calls completed before this one

srvVars == <<clock, fsFiles, call, issued>>

\* The range file server
VARIABLES
    httpReq,  \* the GET /audio request
    httpRes   \* the response, NoResponse until the handler has run

httpVars == <<httpReq, httpRes>>

\* MIME type derivation
VARIABLES
    mimePath,  \* the absolute path handed to readAudioAsDataUrl and to GET /audio
    mimeOut    \* the MIME type each of the two has derived from it, once it has

mimeVars == <<mimePath, mimeOut>>

vars == <<uiVars, srvVars, httpVars, mimeVars>>

\* What a step of one component leaves alone.
NotUi == UNCHANGED <<srvVars, httpVars, mimeVars>>
NotSrv == UNCHANGED <<uiVars, httpVars, mimeVars>>
NotHttp == UNCHANGED <<uiVars, srvVars, mimeVars>>
NotMime == UNCHANGED <<uiVars, srvVars, httpVars>>

\* ------------------------------------------------------------------------
\* Player UI: values
\* ------------------------------------------------------------------------
NULL == "null"

Ids == {"a", "b"}

\* A data URL returned by load_audio, and the URL of the range file server.
DataUrl == "dataUrl"
StreamUrl == "streamUrl"

RepeatModes == {"none", "playlist", "track"}

\* player.activeItem when nothing is active.
NoItem == [id |-> NULL, src |-> NULL]

\* ------------------------------------------------------------------------
\* Player UI: helpers
\* ------------------------------------------------------------------------
\* All sequences over S of length 0..n.
SeqUpTo(S, n) == UNION {[1..k -> S] : k \in 0..n}

HasId(q, i) == \E k \in DOMAIN q : q[k].id = i

\* tracks.findIndex((t) => t.id === id), 1-based; 0 stands for JavaScript's -1.
FindIndex(q, i) ==
    IF HasId(q, i) THEN CHOOSE k \in DOMAIN q : q[k].id = i /\ \A j \in 1..(k-1) : q[j].id # i
    ELSE 0

InflightTotal(f) == LET RECURSIVE Sum(_)
                        Sum(S) == IF S = {} THEN 0
                                  ELSE LET x == CHOOSE y \in S : TRUE
                                       IN f[x] + Sum(S \ {x})
                    IN Sum(DOMAIN f)

\* player.play(item) of the audio-player component.
PlayerPlay(cur, item) ==
    [activeItem |-> IF item.id = cur.id THEN cur ELSE item, isPlaying |-> TRUE]

\* player.setActiveItem(item) of the audio-player component.
PlayerSetActiveItem(cur, playing, item) ==
    IF item.id = cur.id THEN [activeItem |-> cur, isPlaying |-> playing]
    ELSE [activeItem |-> item, isPlaying |-> FALSE]

\* A tool result as ontoolresult sees it: structuredContent.tracks and the
\* text content parsed as JSON, each present or not.
Batches == SeqUpTo(Ids, MaxBatch)
Absent == [has |-> FALSE, ids |-> <<>>]
Present(b) == [has |-> TRUE, ids |-> b]
\* An isError result: no structuredContent, and a text that is not JSON.
ErrorToolResult == [structured |-> Absent, text |-> Absent]
ToolResults ==
    {[structured |-> Present(b), text |-> Absent] : b \in Batches}
    \cup {[structured |-> Absent, text |-> Present(b)] : b \in Batches}
    \cup {ErrorToolResult}
    \cup {[structured |-> Present(<<x>>), text |-> Present(<<y>>)] : x \in Ids, y \in Ids}

MapTracks(ids, src) == [k \in DOMAIN ids |-> [id |-> ids[k], src |-> src]]

\* A lazy parser that hands out tracks with their audio already attached.
parseTracksFromResult_Eager(v, result) ==
    IF v = "lazy"
    THEN IF result.structured.has THEN MapTracks(result.structured.ids, DataUrl)
         ELSE IF result.text.has THEN MapTracks(result.text.ids, DataUrl)
         ELSE <<>>
    ELSE IF result.text.has THEN MapTracks(result.text.ids, StreamUrl)
         ELSE <<>>

parseTracksFromResult(v, result) ==
    IF v = "lazy"
    THEN IF result.structured.has THEN MapTracks(result.structured.ids, NULL)
         ELSE IF result.text.has THEN MapTracks(result.text.ids, NULL)
         ELSE <<>>
    ELSE IF result.text.has THEN MapTracks(result.text.ids, StreamUrl)
         ELSE <<>>

\* A merge that replaces a queued entry by the incoming entry of the same id.
Merge_Refresh(prev, newTracks) ==
    [k \in DOMAIN prev |->
        IF HasId(newTracks, prev[k].id)
        THEN newTracks[FindIndex(newTracks, prev[k].id)]
        ELSE prev[k]]
    \o SelectSeq(newTracks, LAMBDA t : ~HasId(prev, t.id))

\* A merge that puts the new tracks in front of the queue.
Merge_Prepend(prev, newTracks) ==
    SelectSeq(newTracks, LAMBDA t : ~HasId(prev, t.id)) \o prev

\* A merge that appends the whole batch.
Merge_AppendAll(prev, newTracks) == prev \o newTracks

\* The updater passed to setTracks by ontoolresult.
Merge(prev, newTracks) ==
    prev \o SelectSeq(newTracks, LAMBDA t : ~HasId(prev, t.id))

\* Auto-select effects that select the first new track whether or not a
\* track is active.
AutoSelect_IgnoresActive(v, q, cur, playing, init, prevLen) ==
    LET first == IF Len(q) > 0 /\ ~init /\ (v = "streaming" \/ q[1].src # NULL)
                 THEN PlayerSetActiveItem(cur, playing, q[1])
                 ELSE [activeItem |-> cur, isPlaying |-> playing]
        second == IF Len(q) > prevLen
                     /\ (v = "streaming" \/ q[prevLen + 1].src # NULL)
                  THEN PlayerSetActiveItem(first.activeItem, first.isPlaying, q[prevLen + 1])
                  ELSE first
    IN [activeItem |-> second.activeItem, isPlaying |-> second.isPlaying,
        initialized |-> (init \/ Len(q) > 0), prevTracksLength |-> Len(q)]

\* The two auto-select effects, run after a render in which tracks changed.
\* Both read player.activeItem of that render.
AutoSelect(v, q, cur, playing, init, prevLen) ==
    LET first == IF Len(q) > 0 /\ ~init /\ (v = "streaming" \/ q[1].src # NULL)
                 THEN PlayerSetActiveItem(cur, playing, q[1])
                 ELSE [activeItem |-> cur, isPlaying |-> playing]
        second == IF Len(q) > prevLen /\ cur = NoItem
                     /\ (v = "streaming" \/ q[prevLen + 1].src # NULL)
                  THEN PlayerSetActiveItem(first.activeItem, first.isPlaying, q[prevLen + 1])
                  ELSE first
    IN [activeItem |-> second.activeItem, isPlaying |-> second.isPlaying,
        initialized |-> (init \/ Len(q) > 0), prevTracksLength |-> Len(q)]

\* The render values an 'ended' listener closes over.
Closure(q, item, mode) == [tracks |-> q, activeItem |-> item, repeatMode |-> mode]

\* An effect that registers a new listener only when the active item or the
\* repeat mode has changed, not when the queue has.
Subscribe_NoTracksDep(old, q, item, mode) ==
    IF item # old.activeItem \/ mode # old.repeatMode
    THEN Closure(q, item, mode)
    ELSE old

\* The effect that registers handleEnded: after a render in which tracks,
\* player or repeatMode has changed it removes the old listener and adds one
\* closed over the values of that render.
Subscribe(old, q, item, mode) ==
    IF q # old.tracks \/ item # old.activeItem \/ mode # old.repeatMode
    THEN Closure(q, item, mode)
    ELSE old

\* ------------------------------------------------------------------------
\* Player UI: initial state
\* ------------------------------------------------------------------------
UiInit ==
    /\ variant \in {"lazy", "streaming"}
    /\ tracks = <<>>
    /\ activeItem = NoItem
    /\ isPlaying = FALSE
    /\ repeatMode = "none"
    /\ loadingTrackId = NULL
    /\ inflight = [i \in Ids |-> 0]
    /\ audioLoop = FALSE
    /\ initialized = FALSE
    /\ prevTracksLength = 0
    /\ endedListener = Closure(<<>>, NoItem, "none")
    /\ lastOp = [op |-> "init", id |-> NULL, play |-> "none", load |-> NULL,
                 batch |-> <<>>, calls |-> <<>>, appended |-> 0]

\* ------------------------------------------------------------------------
\* Player UI: handlers
\* ------------------------------------------------------------------------
\* What a handler did: op names it, id is the track it was about, play is the
\* src handed to player.play ("none" when no play was issued), load is the id
\* of the track for which load_audio was called (NULL when none was), batch is
\* the ids of the tracks ontoolresult parsed from its result, calls is what a
\* load completion called, in the order of the calls, appended is the number
\* of entries ontoolresult appended, and for 'ended' the number appended by the
\* handler that ran just before the event.
Did(op, id, play, load) ==
    [op |-> op, id |-> id, play |-> play, load |-> load, batch |-> <<>>,
     calls |-> <<>>, appended |-> 0, after |-> NULL, advancedFrom |-> NULL]

\* The effects of the render that follows a handler: the 'ended' listener.
Resubscribe ==
    endedListener' = Subscribe(endedListener, tracks', activeItem', repeatMode')

TrackIds(q) == [k \in DOMAIN q |-> q[k].id]

\* The player-side state a handler reads and writes.
Now == [activeItem |-> activeItem, isPlaying |-> isPlaying,
        loadingTrackId |-> loadingTrackId, inflight |-> inflight,
        play |-> "none", load |-> NULL]

\* loadAndPlayTrack without the test of track.src: it plays whatever it is given.
loadAndPlayTrack_PlayUnloaded(track, st) ==
    LET p == PlayerPlay(st.activeItem, track)
    IN [st EXCEPT !.activeItem = p.activeItem, !.isPlaying = p.isPlaying,
                  !.play = track.src]

\* loadAndPlayTrack that sets loadingTrackId before it tests track.src.
loadAndPlayTrack_MarksFirst(track, st) ==
    IF track.src # NULL
    THEN LET p == PlayerPlay(st.activeItem, track)
         IN [st EXCEPT !.activeItem = p.activeItem, !.isPlaying = p.isPlaying,
                       !.play = track.src, !.loadingTrackId = track.id]
    ELSE [st EXCEPT !.loadingTrackId = track.id,
                    !.inflight = [st.inflight EXCEPT ![track.id] = @ + 1],
                    !.load = track.id]

\* loadAndPlayTrack that pauses the player while it loads.
loadAndPlayTrack_PausesToLoad(track, st) ==
    IF track.src # NULL
    THEN LET p == PlayerPlay(st.activeItem, track)
         IN [st EXCEPT !.activeItem = p.activeItem, !.isPlaying = p.isPlaying,
                       !.play = track.src]
    ELSE [st EXCEPT !.loadingTrackId = track.id,
                    !.isPlaying = FALSE,
                    !.inflight = [st.inflight EXCEPT ![track.id] = @ + 1],
                    !.load = track.id]

\* loadAndPlayTrack(track) up to its await: play a loaded track at once,
\* otherwise set loadingTrackId and call load_audio.
loadAndPlayTrack(track, st) ==
    IF track.src # NULL
    THEN LET p == PlayerPlay(st.activeItem, track)
         IN [st EXCEPT !.activeItem = p.activeItem, !.isPlaying = p.isPlaying,
                       !.play = track.src]
    ELSE [st EXCEPT !.loadingTrackId = track.id,
                    !.inflight = [st.inflight EXCEPT ![track.id] = @ + 1],
                    !.load = track.id]

\* player.pause()
PlayerPause(st) == [st EXCEPT !.isPlaying = FALSE]

Commit(st) ==
    /\ activeItem' = st.activeItem
    /\ isPlaying' = st.isPlaying
    /\ loadingTrackId' = st.loadingTrackId
    /\ inflight' = st.inflight
    /\ InflightTotal(st.inflight) <= MaxLoads

\* An ontoolresult that empties the queue when the result holds no tracks.
OnToolResult_ResetsOnEmpty(result) ==
    LET newTracks == parseTracksFromResult(variant, result)
        q == IF Len(newTracks) > 0 THEN Merge(tracks, newTracks) ELSE <<>>
        eff == AutoSelect(variant, q, activeItem, isPlaying, initialized, prevTracksLength)
    IN /\ Len(q) <= MaxQueue
       /\ tracks' = q
       /\ activeItem' = eff.activeItem
       /\ isPlaying' = eff.isPlaying
       /\ initialized' = eff.initialized
       /\ prevTracksLength' = eff.prevTracksLength
       /\ lastOp' = [Did("toolresult", NULL, "none", NULL) EXCEPT
                        !.batch = TrackIds(newTracks),
                        !.appended = Len(q) - Len(tracks)]
       /\ UNCHANGED <<variant, repeatMode, loadingTrackId, inflight, audioLoop>>
       /\ Resubscribe
       /\ NotUi

\* app.ontoolresult
OnToolResult(result) ==
    LET newTracks == parseTracksFromResult(variant, result)
        q == IF Len(newTracks) > 0 THEN Merge(tracks, newTracks) ELSE tracks
        eff == AutoSelect(variant, q, activeItem, isPlaying, initialized, prevTracksLength)
    IN /\ Len(q) <= MaxQueue
       /\ tracks' = q
       /\ activeItem' = eff.activeItem
       /\ isPlaying' = eff.isPlaying
       /\ initialized' = eff.initialized
       /\ prevTracksLength' = eff.prevTracksLength
       /\ lastOp' = [Did("toolresult", NULL, "none", NULL) EXCEPT
                        !.batch = TrackIds(newTracks),
                        !.appended = Len(q) - Len(tracks)]
       /\ UNCHANGED <<variant, repeatMode, loadingTrackId, inflight, audioLoop>>
       /\ Resubscribe
       /\ NotUi

\* TrackListItem's click handler; the list is rendered for two or more tracks.
TrackListItemClick(track, st) ==
    IF variant = "lazy"
    THEN IF st.activeItem.id = track.id /\ st.isPlaying
         THEN PlayerPause(st)
         ELSE loadAndPlayTrack(track, st)
    ELSE IF st.activeItem.id = track.id /\ st.isPlaying
         THEN PlayerPause(st)
         ELSE LET p == PlayerPlay(st.activeItem, track)
              IN [st EXCEPT !.activeItem = p.activeItem, !.isPlaying = p.isPlaying,
                            !.play = track.src]

ClickItem(k) ==
    /\ Len(tracks) > 1
    /\ k \in DOMAIN tracks
    /\ ~(variant = "lazy" /\ loadingTrackId = tracks[k].id)
    /\ LET st == TrackListItemClick(tracks[k], Now)
       IN /\ Commit(st)
          /\ lastOp' = Did("click", tracks[k].id, st.play, st.load)
    /\ UNCHANGED <<variant, tracks, repeatMode, audioLoop, initialized, prevTracksLength>>
    /\ Resubscribe
    /\ NotUi

\* Player: tracks.find((t) => t.id === player.activeItem?.id) ?? tracks[0]
CurrentTrack == IF HasId(tracks, activeItem.id)
                THEN tracks[FindIndex(tracks, activeItem.id)]
                ELSE tracks[1]

\* Player.handlePlayPause (lazy variant)
handlePlayPause(currentTrack, st) ==
    IF st.isPlaying THEN PlayerPause(st)
    ELSE IF currentTrack.src = NULL THEN loadAndPlayTrack(currentTrack, st)
    ELSE LET p == PlayerPlay(st.activeItem, currentTrack)
         IN [st EXCEPT !.activeItem = p.activeItem, !.isPlaying = p.isPlaying,
                       !.play = currentTrack.src]

\* AudioPlayerButton of the audio-player component (streaming variant)
AudioPlayerButtonClick(st) ==
    IF st.isPlaying THEN PlayerPause(st)
    ELSE [st EXCEPT !.isPlaying = TRUE, !.play = st.activeItem.src]

PlayPause ==
    /\ Len(tracks) > 0
    /\ IF variant = "lazy"
       THEN /\ loadingTrackId # CurrentTrack.id
            /\ LET st == handlePlayPause(CurrentTrack, Now)
               IN /\ Commit(st)
                  /\ lastOp' = Did("playpause", CurrentTrack.id, st.play, st.load)
       ELSE /\ activeItem # NoItem
            /\ LET st == AudioPlayerButtonClick(Now)
               IN /\ Commit(st)
                  /\ lastOp' = Did("playpause", activeItem.id, st.play, st.load)
    /\ UNCHANGED <<variant, tracks, repeatMode, audioLoop, initialized, prevTracksLength>>
    /\ Resubscribe
    /\ NotUi

\* A cycle that runs the other way round.
cycleRepeatMode_Backwards(prev) ==
    IF prev = "none" THEN "track"
    ELSE IF prev = "track" THEN "playlist"
    ELSE "none"

cycleRepeatMode(prev) ==
    IF prev = "none" THEN "playlist"
    ELSE IF prev = "playlist" THEN "track"
    ELSE "none"

\* A loop effect that sets audio.loop for every repeating mode.
loopEffect_AnyRepeat(mode) == mode # "none"

\* The value the loop effect assigns to audio.loop for a repeat mode.
loopEffect(mode) == mode = "track"

\* The repeat button, followed by the effect that sets audio.loop.
CycleRepeat ==
    /\ Len(tracks) > 0
    /\ repeatMode' = cycleRepeatMode(repeatMode)
    /\ audioLoop' = loopEffect(repeatMode')
    /\ lastOp' = Did("repeat", NULL, "none", NULL)
    /\ UNCHANGED <<variant, tracks, activeItem, isPlaying, loadingTrackId, inflight,
                   initialized, prevTracksLength>>
    /\ Resubscribe
    /\ NotUi

\* handleEnded without the early return of repeat-track.
handleEnded_NoTrackReturn(q, mode, st) ==
    LET currentIndex == FindIndex(q, st.activeItem.id)
        PlayOrLoad(track) ==
            IF variant = "lazy" THEN loadAndPlayTrack(track, st)
            ELSE LET p == PlayerPlay(st.activeItem, track)
                 IN [st EXCEPT !.activeItem = p.activeItem, !.isPlaying = p.isPlaying,
                               !.play = track.src]
    IN IF currentIndex >= 1 /\ currentIndex < Len(q) THEN PlayOrLoad(q[currentIndex + 1])
       ELSE IF mode = "playlist" /\ Len(q) > 0 THEN PlayOrLoad(q[1])
       ELSE st

\* handleEnded without the wrap-around branch of repeat-playlist.
handleEnded_NoWrap(q, mode, st) ==
    LET currentIndex == FindIndex(q, st.activeItem.id)
        PlayOrLoad(track) ==
            IF variant = "lazy" THEN loadAndPlayTrack(track, st)
            ELSE LET p == PlayerPlay(st.activeItem, track)
                 IN [st EXCEPT !.activeItem = p.activeItem, !.isPlaying = p.isPlaying,
                               !.play = track.src]
    IN IF mode = "track" THEN st
       ELSE IF currentIndex >= 1 /\ currentIndex < Len(q) THEN PlayOrLoad(q[currentIndex + 1])
       ELSE st

\* handleEnded wrapping around whatever the repeat mode is.
handleEnded_WrapAlways(q, mode, st) ==
    LET currentIndex == FindIndex(q, st.activeItem.id)
        PlayOrLoad(track) ==
            IF variant = "lazy" THEN loadAndPlayTrack(track, st)
            ELSE LET p == PlayerPlay(st.activeItem, track)
                 IN [st EXCEPT !.activeItem = p.activeItem, !.isPlaying = p.isPlaying,
                               !.play = track.src]
    IN IF mode = "track" THEN st
       ELSE IF currentIndex >= 1 /\ currentIndex < Len(q) THEN PlayOrLoad(q[currentIndex + 1])
       ELSE IF Len(q) > 0 THEN PlayOrLoad(q[1])
       ELSE st

\* handleEnded, after the <audio> element has stopped at the end of the track.
\* handleEnded that wraps around only in a queue of two or more tracks.
handleEnded_WrapNeedsTwo(q, mode, st) ==
    LET currentIndex == FindIndex(q, st.activeItem.id)
        PlayOrLoad(track) ==
            IF variant = "lazy" THEN loadAndPlayTrack(track, st)
            ELSE LET p == PlayerPlay(st.activeItem, track)
                 IN [st EXCEPT !.activeItem = p.activeItem, !.isPlaying = p.isPlaying,
                               !.play = track.src]
    IN IF mode = "track" THEN st
       ELSE IF currentIndex >= 1 /\ currentIndex < Len(q) THEN PlayOrLoad(q[currentIndex + 1])
       ELSE IF mode = "playlist" /\ Len(q) > 1 THEN PlayOrLoad(q[1])
       ELSE st

handleEnded(q, mode, st) ==
    LET currentIndex == FindIndex(q, st.activeItem.id)
        PlayOrLoad(track) ==
            IF variant = "lazy" THEN loadAndPlayTrack(track, st)
            ELSE LET p == PlayerPlay(st.activeItem, track)
                 IN [st EXCEPT !.activeItem = p.activeItem, !.isPlaying = p.isPlaying,
                               !.play = track.src]
    IN IF mode = "track" THEN st
       ELSE IF currentIndex >= 1 /\ currentIndex < Len(q) THEN PlayOrLoad(q[currentIndex + 1])
       ELSE IF mode = "playlist" /\ Len(q) > 0 THEN PlayOrLoad(q[1])
       ELSE st

\* The 'ended' event. A looping element restarts instead of stopping. The
\* registered listener runs with the queue, the active item and the repeat
\* mode it has closed over.
Ended ==
    /\ isPlaying
    /\ LET stopped == IF audioLoop THEN Now ELSE PlayerPause(Now)
           st == handleEnded(endedListener.tracks, endedListener.repeatMode,
                             [stopped EXCEPT !.activeItem = endedListener.activeItem])
       IN /\ Commit(st)
          /\ lastOp' = [Did("ended", activeItem.id, st.play, st.load) EXCEPT
                           !.appended = IF lastOp.op = "toolresult"
                                        THEN lastOp.appended ELSE 0]
    /\ UNCHANGED <<variant, tracks, repeatMode, audioLoop, initialized, prevTracksLength>>
    /\ Resubscribe
    /\ NotUi

\* A success path that plays before it stores the source.
LoadOk_PlayFirst(id) ==
    /\ variant = "lazy"
    /\ inflight[id] > 0
    /\ LET q == [k \in DOMAIN tracks |->
                    IF tracks[k].id = id THEN [tracks[k] EXCEPT !.src = DataUrl]
                    ELSE tracks[k]]
           p == PlayerPlay(activeItem, [id |-> id, src |-> DataUrl])
           eff == AutoSelect(variant, q, p.activeItem, p.isPlaying, initialized,
                             prevTracksLength)
       IN /\ tracks' = q
          /\ activeItem' = eff.activeItem
          /\ isPlaying' = eff.isPlaying
          /\ initialized' = eff.initialized
          /\ prevTracksLength' = eff.prevTracksLength
    /\ loadingTrackId' = NULL
    /\ inflight' = [inflight EXCEPT ![id] = @ - 1]
    /\ lastOp' = [Did("loadok", id, DataUrl, NULL) EXCEPT
                     !.calls = <<"play", "setTracks", "setLoadingTrackId">>]
    /\ UNCHANGED <<variant, repeatMode, audioLoop>>
    /\ Resubscribe
    /\ NotUi

\* A success path that stores the source and does not play.
LoadOk_StoreOnly(id) ==
    /\ variant = "lazy"
    /\ inflight[id] > 0
    /\ LET q == [k \in DOMAIN tracks |->
                    IF tracks[k].id = id THEN [tracks[k] EXCEPT !.src = DataUrl]
                    ELSE tracks[k]]
           eff == AutoSelect(variant, q, activeItem, isPlaying, initialized,
                             prevTracksLength)
       IN /\ tracks' = q
          /\ activeItem' = eff.activeItem
          /\ isPlaying' = eff.isPlaying
          /\ initialized' = eff.initialized
          /\ prevTracksLength' = eff.prevTracksLength
    /\ loadingTrackId' = NULL
    /\ inflight' = [inflight EXCEPT ![id] = @ - 1]
    /\ lastOp' = Did("loadok", id, "none", NULL)
    /\ UNCHANGED <<variant, repeatMode, audioLoop>>
    /\ Resubscribe
    /\ NotUi

\* A success path that leaves loadingTrackId as it is.
LoadOk_KeepsLoading(id) ==
    /\ variant = "lazy"
    /\ inflight[id] > 0
    /\ LET q == [k \in DOMAIN tracks |->
                    IF tracks[k].id = id THEN [tracks[k] EXCEPT !.src = DataUrl]
                    ELSE tracks[k]]
           p == PlayerPlay(activeItem, [id |-> id, src |-> DataUrl])
           eff == AutoSelect(variant, q, p.activeItem, p.isPlaying, initialized,
                             prevTracksLength)
       IN /\ tracks' = q
          /\ activeItem' = eff.activeItem
          /\ isPlaying' = eff.isPlaying
          /\ initialized' = eff.initialized
          /\ prevTracksLength' = eff.prevTracksLength
    /\ inflight' = [inflight EXCEPT ![id] = @ - 1]
    /\ lastOp' = Did("loadok", id, DataUrl, NULL)
    /\ UNCHANGED <<variant, repeatMode, audioLoop, loadingTrackId>>
    /\ Resubscribe
    /\ NotUi

\* A success path that plays only when the track is still the one marked
\* as loading.
LoadOk_IfStillLoading(id) ==
    /\ variant = "lazy"
    /\ inflight[id] > 0
    /\ LET q == [k \in DOMAIN tracks |->
                    IF tracks[k].id = id THEN [tracks[k] EXCEPT !.src = DataUrl]
                    ELSE tracks[k]]
           p == IF loadingTrackId = id
                THEN PlayerPlay(activeItem, [id |-> id, src |-> DataUrl])
                ELSE [activeItem |-> activeItem, isPlaying |-> isPlaying]
           eff == AutoSelect(variant, q, p.activeItem, p.isPlaying, initialized,
                             prevTracksLength)
       IN /\ tracks' = q
          /\ activeItem' = eff.activeItem
          /\ isPlaying' = eff.isPlaying
          /\ initialized' = eff.initialized
          /\ prevTracksLength' = eff.prevTracksLength
    /\ loadingTrackId' = NULL
    /\ inflight' = [inflight EXCEPT ![id] = @ - 1]
    /\ lastOp' = [Did("loadok", id, DataUrl, NULL) EXCEPT
                     !.calls = <<"setTracks", "play", "setLoadingTrackId">>,
                     !.after = IF lastOp.op = "loadok" /\ lastOp.id # id
                               THEN lastOp.id ELSE NULL]
    /\ UNCHANGED <<variant, repeatMode, audioLoop>>
    /\ Resubscribe
    /\ NotUi

\* loadAndPlayTrack(track) after its await, load_audio having returned a dataUrl:
\* store the source on the queue entry, play, and clear loadingTrackId.
LoadOk(id) ==
    /\ variant = "lazy"
    /\ inflight[id] > 0
    /\ LET q == [k \in DOMAIN tracks |->
                    IF tracks[k].id = id THEN [tracks[k] EXCEPT !.src = DataUrl]
                    ELSE tracks[k]]
           p == PlayerPlay(activeItem, [id |-> id, src |-> DataUrl])
           eff == AutoSelect(variant, q, p.activeItem, p.isPlaying, initialized,
                             prevTracksLength)
       IN /\ tracks' = q
          /\ activeItem' = eff.activeItem
          /\ isPlaying' = eff.isPlaying
          /\ initialized' = eff.initialized
          /\ prevTracksLength' = eff.prevTracksLength
    /\ loadingTrackId' = NULL
    /\ inflight' = [inflight EXCEPT ![id] = @ - 1]
    /\ lastOp' = [Did("loadok", id, DataUrl, NULL) EXCEPT
                     !.calls = <<"setTracks", "play", "setLoadingTrackId">>,
                     !.after = IF lastOp.op = "loadok" /\ lastOp.id # id
                               THEN lastOp.id ELSE NULL]
    /\ UNCHANGED <<variant, repeatMode, audioLoop>>
    /\ Resubscribe
    /\ NotUi

\* loadAndPlayTrack(track) after its await when load_audio returned an error
\* result or no dataUrl, or the call rejected: only the finally block runs.
LoadFailKinds == {"isError", "noDataUrl", "rejected"}

\* A failure path that skips the finally block: loadingTrackId stays set.
LoadFail_KeepsLoading(id, kind) ==
    /\ variant = "lazy"
    /\ inflight[id] > 0
    /\ inflight' = [inflight EXCEPT ![id] = @ - 1]
    /\ lastOp' = Did(kind, id, "none", NULL)
    /\ UNCHANGED <<variant, tracks, activeItem, isPlaying, repeatMode, audioLoop,
                   initialized, prevTracksLength, loadingTrackId>>
    /\ Resubscribe
    /\ NotUi

\* A failure path that calls load_audio again.
LoadFail_Retries(id, kind) ==
    /\ variant = "lazy"
    /\ inflight[id] > 0
    /\ loadingTrackId' = id
    /\ inflight' = inflight
    /\ lastOp' = [Did(kind, id, "none", id) EXCEPT
                     !.advancedFrom = IF lastOp.op = "ended" /\ lastOp.load = id
                                      THEN lastOp.id ELSE NULL]
    /\ UNCHANGED <<variant, tracks, activeItem, isPlaying, repeatMode, audioLoop,
                   initialized, prevTracksLength>>
    /\ Resubscribe
    /\ NotUi

LoadFail(id, kind) ==
    /\ variant = "lazy"
    /\ inflight[id] > 0
    /\ loadingTrackId' = NULL
    /\ inflight' = [inflight EXCEPT ![id] = @ - 1]
    /\ lastOp' = [Did(kind, id, "none", NULL) EXCEPT
                     !.calls = <<"setLoadingTrackId">>,
                     !.advancedFrom = IF lastOp.op = "ended" /\ lastOp.load = id
                                      THEN lastOp.id ELSE NULL]
    /\ UNCHANGED <<variant, tracks, activeItem, isPlaying, repeatMode, audioLoop,
                   initialized, prevTracksLength>>
    /\ Resubscribe
    /\ NotUi

UiNext ==
    \/ \E result \in ToolResults : OnToolResult(result)
    \/ \E k \in 1..MaxQueue : ClickItem(k)
    \/ PlayPause
    \/ CycleRepeat
    \/ Ended
    \/ \E id \in Ids : LoadOk(id)
    \/ \E id \in Ids, kind \in LoadFailKinds : LoadFail(id, kind)

\* ------------------------------------------------------------------------
\* MCP server: values
\* ------------------------------------------------------------------------
\* A path is a directory and a file name; a relative path has directory "".
Cwd == "/cwd"
\* The paths passed to the tools: a relative one and an absolute one, naming
\* different files.
Paths == {[dir |-> "", name |-> "x"], [dir |-> Cwd, name |-> "y"]}
NoPath == [dir |-> "", name |-> ""]

\* path.resolve(filePath)
Resolve(p) == [dir |-> IF p.dir = "" THEN Cwd ELSE p.dir, name |-> p.name]

AbsPaths == {Resolve(p) : p \in Paths}

\* `${batchId}-${i}`
TrackId(batchId, i) == [batch |-> batchId, index |-> i]

\* The title and the optional artist of an entry; "undefined" is no artist.
Metadata == {[title |-> "t1", artist |-> "undefined"], [title |-> "t2", artist |-> "ar"]}
PlayAudioEntries ==
    {[filePath |-> p, title |-> m.title, artist |-> m.artist] : p \in Paths, m \in Metadata}
PlayAudioInputs == SeqUpTo(PlayAudioEntries, MaxTracks)

\* load_audio arguments
LoadAudioInputs == Paths

GenerateTools == {"generate_tts", "generate_sound_effect", "generate_music"}

\* A tool result: isError, structuredContent.tracks, the path named by the
\* error text, and structuredContent.dataUrl, which stands for the content of
\* the file read, as the path of that file.
NoResult == [isError |-> FALSE, tracks |-> <<>>, errPath |-> NoPath, dataUrl |-> NoPath]
ErrorResult(p) == [isError |-> TRUE, tracks |-> <<>>, errPath |-> p, dataUrl |-> NoPath]
TracksResult(ts) == [isError |-> FALSE, tracks |-> ts, errPath |-> NoPath, dataUrl |-> NoPath]
DataUrlResult(p) == [isError |-> FALSE, tracks |-> <<>>, errPath |-> NoPath, dataUrl |-> p]

IdleCall == [tool |-> "none", status |-> "idle", tracks |-> <<>>, i |-> 0,
             validatedTracks |-> <<>>, batchId |-> 0, checks |-> <<>>,
             result |-> NoResult]

\* ------------------------------------------------------------------------
\* MCP server: initial state
\* ------------------------------------------------------------------------
SrvInit ==
    /\ clock = 0
    /\ fsFiles \in SUBSET AbsPaths
    /\ call = IdleCall
    /\ issued = {}

ResultIds(c) == {c.result.tracks[k].id : k \in DOMAIN c.result.tracks}

\* ------------------------------------------------------------------------
\* MCP server: handlers
\* ------------------------------------------------------------------------
\* play_audio from its entry to the first await: batchId is read, and an empty
\* tracks argument returns at once.
PlayAudioEnter(tracksArg, now) ==
    [tool |-> "play_audio",
     status |-> IF Len(tracksArg) = 0 THEN "done" ELSE "running",
     tracks |-> tracksArg, i |-> 0, validatedTracks |-> <<>>, batchId |-> now,
     checks |-> <<>>, result |-> TracksResult(<<>>)]

\* A validated track whose id does not use the loop index.
ValidatedTrack_SameId(batchId, i, track) ==
    [id |-> TrackId(batchId, 0), filePath |-> Resolve(track.filePath),
     title |-> track.title, artist |-> track.artist]

\* The entry play_audio pushes on validatedTracks for tracks[i].
ValidatedTrack(batchId, i, track) ==
    [id |-> TrackId(batchId, i), filePath |-> Resolve(track.filePath),
     title |-> track.title, artist |-> track.artist]

\* play_audio that leaves a missing file out and goes on with the next entry.
PlayAudioIteration_SkipMissing(c, accessible) ==
    LET track == c.tracks[c.i + 1]
        absolutePath == Resolve(track.filePath)
        validated == IF accessible
                     THEN Append(c.validatedTracks, ValidatedTrack(c.batchId, c.i, track))
                     ELSE c.validatedTracks
        last == c.i + 1 = Len(c.tracks)
    IN [c EXCEPT !.i = c.i + 1, !.validatedTracks = validated,
                 !.checks = Append(c.checks, accessible),
                 !.status = IF last THEN "done" ELSE "running",
                 !.result = IF last THEN TracksResult(validated) ELSE c.result]

\* One iteration of play_audio's loop, from the result of fs.access to the
\* next await or to the return: accessible is whether fs.access resolved.
PlayAudioIteration(c, accessible) ==
    LET track == c.tracks[c.i + 1]
        absolutePath == Resolve(track.filePath)
        validated == Append(c.validatedTracks, ValidatedTrack(c.batchId, c.i, track))
        last == c.i + 1 = Len(c.tracks)
    IN IF accessible
       THEN [c EXCEPT !.i = c.i + 1, !.validatedTracks = validated,
                      !.checks = Append(c.checks, TRUE),
                      !.status = IF last THEN "done" ELSE "running",
                      !.result = IF last THEN TracksResult(validated) ELSE c.result]
       ELSE [c EXCEPT !.checks = Append(c.checks, FALSE),
                      !.status = "done",
                      !.result = ErrorResult(absolutePath)]

\* A new tool call arrives once the previous one has returned.
Retire == /\ call.status # "running"
          /\ issued' = issued \cup ResultIds(call)

InvokePlayAudio(tracksArg) ==
    /\ Retire
    /\ call' = PlayAudioEnter(tracksArg, clock)
    /\ UNCHANGED <<clock, fsFiles>>
    /\ NotSrv

PlayAudioAccess ==
    /\ call.tool = "play_audio"
    /\ call.status = "running"
    /\ call' = PlayAudioIteration(call, Resolve(call.tracks[call.i + 1].filePath) \in fsFiles)
    /\ UNCHANGED <<clock, fsFiles, issued>>
    /\ NotSrv

\* load_audio that lets a rejection of readFile escape the handler.
LoadAudioStep_NoCatch(c, exists, readable) ==
    LET absolutePath == Resolve(c.tracks[1].filePath)
    IN IF c.i = 0
       THEN IF exists THEN [c EXCEPT !.i = 1]
            ELSE [c EXCEPT !.status = "done", !.result = ErrorResult(absolutePath)]
       ELSE IF exists /\ readable
            THEN [c EXCEPT !.status = "done", !.result = DataUrlResult(absolutePath)]
            ELSE [c EXCEPT !.status = "threw"]

\* load_audio from one await to the next or to the return. At i = 0 the
\* pending await is fs.access, at i = 1 it is fs.readFile; exists is whether
\* the path exists when the await settles, readable whether its content can
\* be read. A rejection of either is caught and returned as an isError result.
LoadAudioStep(c, exists, readable) ==
    LET absolutePath == Resolve(c.tracks[1].filePath)
    IN IF c.i = 0
       THEN IF exists THEN [c EXCEPT !.i = 1]
            ELSE [c EXCEPT !.status = "done", !.result = ErrorResult(absolutePath)]
       ELSE IF exists /\ readable
            THEN [c EXCEPT !.status = "done", !.result = DataUrlResult(absolutePath)]
            ELSE [c EXCEPT !.status = "done", !.result = ErrorResult(absolutePath)]

InvokeLoadAudio(filePath) ==
    /\ Retire
    /\ call' = [IdleCall EXCEPT !.tool = "load_audio", !.status = "running",
                                !.tracks = <<[filePath |-> filePath]>>]
    /\ UNCHANGED <<clock, fsFiles>>
    /\ NotSrv

\* An await of load_audio settles. A file that exists may still be unreadable
\* (no permission, a directory): fs.access tests existence only.
LoadAudioAwait(readable) ==
    /\ call.tool = "load_audio"
    /\ call.status = "running"
    /\ call' = LoadAudioStep(call, Resolve(call.tracks[1].filePath) \in fsFiles, readable)
    /\ UNCHANGED <<clock, fsFiles, issued>>
    /\ NotSrv

\* generate_tts, generate_sound_effect, generate_music: up to the provider call.
InvokeGenerate(tool) ==
    /\ Retire
    /\ call' = [IdleCall EXCEPT !.tool = tool, !.status = "running"]
    /\ UNCHANGED <<clock, fsFiles>>
    /\ NotSrv

\* The generated audio has been saved: batchId is read and one track returned.
GenerateReturn ==
    /\ call.tool \in GenerateTools
    /\ call.status = "running"
    /\ call' = [call EXCEPT !.status = "done", !.batchId = clock,
                            !.result = TracksResult(<<[id |-> TrackId(clock, 0),
                                                      filePath |-> NoPath,
                                                      title |-> "generated",
                                                      artist |-> "ElevenLabs"]>>)]
    /\ UNCHANGED <<clock, fsFiles, issued>>
    /\ NotSrv

\* getClient, the provider call or the file write threw: the catch block.
GenerateCatch ==
    /\ call.tool \in GenerateTools
    /\ call.status = "running"
    /\ call' = [call EXCEPT !.status = "done", !.result = ErrorResult(NoPath)]
    /\ UNCHANGED <<clock, fsFiles, issued>>
    /\ NotSrv

\* The environment: time passes, files appear and disappear.
Tick ==
    /\ clock < MaxClock
    /\ clock' = clock + 1
    /\ UNCHANGED <<fsFiles, call, issued>>
    /\ NotSrv

FsCreate(p) ==
    /\ p \notin fsFiles
    /\ fsFiles' = fsFiles \cup {p}
    /\ UNCHANGED <<clock, call, issued>>
    /\ NotSrv

FsDelete(p) ==
    /\ p \in fsFiles
    /\ fsFiles' = fsFiles \ {p}
    /\ UNCHANGED <<clock, call, issued>>
    /\ NotSrv

SrvNext ==
    \/ \E tracksArg \in PlayAudioInputs : InvokePlayAudio(tracksArg)
    \/ PlayAudioAccess
    \/ \E filePath \in LoadAudioInputs : InvokeLoadAudio(filePath)
    \/ \E readable \in BOOLEAN : LoadAudioAwait(readable)
    \/ \E tool \in GenerateTools : InvokeGenerate(tool)
    \/ GenerateReturn
    \/ GenerateCatch
    \/ Tick
    \/ \E p \in AbsPaths : FsCreate(p)
    \/ \E p \in AbsPaths : FsDelete(p)

\* ------------------------------------------------------------------------
\* Range file server: values
\* ------------------------------------------------------------------------
\* A JavaScript number that may be NaN.
Num(v) == [nan |-> FALSE, v |-> v]
NaN == [nan |-> TRUE, v |-> 0]
NumAdd(x, y) == IF x.nan \/ y.nan THEN NaN ELSE Num(x.v + y.v)
NumSub(x, y) == IF x.nan \/ y.nan THEN NaN ELSE Num(x.v - y.v)

\* A Range header is a string, here a sequence of tokens: the text "bytes=",
\* the dash, decimal digits, and "x" for any other character.
Digits == {"0", "1", "2"}
RangeTokens == {"bytes=", "-", "x"} \cup Digits
DigitValue(d) == IF d = "0" THEN 0 ELSE IF d = "1" THEN 1 ELSE 2

NoRange == [present |-> FALSE, text |-> <<>>]
RangeHeaders == {NoRange} \cup {[present |-> TRUE, text |-> t] : t \in SeqUpTo(RangeTokens, MaxHeaderLen)}

\* The path query parameter: not given, empty, the path of no file, or the
\* path of a file of size bytes. The byte at offset k of a file is k.
QueryPaths == {[kind |-> k, size |-> 0] : k \in {"undefined", "empty", "nofile"}}
              \cup {[kind |-> "file", size |-> n] : n \in 0..MaxFileSize}
FileBytes(n) == [k \in 1..n |-> k - 1]

AudioRequests == [path : QueryPaths, range : RangeHeaders]

NoContentRange == [start |-> NaN, end |-> NaN, size |-> 0]
NoResponse == [status |-> 0, contentRange |-> NoContentRange, contentLength |-> NaN,
               acceptRanges |-> FALSE, body |-> <<>>, threw |-> FALSE]

\* range.replace(/bytes=/, ""): the first occurrence is removed.
ReplaceBytes(t) ==
    IF \E k \in DOMAIN t : t[k] = "bytes="
    THEN LET k == CHOOSE j \in DOMAIN t : t[j] = "bytes=" /\ \A h \in 1..(j-1) : t[h] # "bytes="
         IN SubSeq(t, 1, k - 1) \o SubSeq(t, k + 1, Len(t))
    ELSE t

\* text.split("-"): the pieces between the dashes, at least one.
RECURSIVE SplitDash(_)
SplitDash(t) ==
    IF \E k \in DOMAIN t : t[k] = "-"
    THEN LET k == CHOOSE j \in DOMAIN t : t[j] = "-" /\ \A h \in 1..(j-1) : t[h] # "-"
         IN <<SubSeq(t, 1, k - 1)>> \o SplitDash(SubSeq(t, k + 1, Len(t)))
    ELSE <<t>>

\* parseInt(text, 10) of a text without sign or blanks: the value of the
\* leading digits, NaN when there are none.
RECURSIVE DecimalValue(_)
DecimalValue(t) ==
    IF Len(t) = 0 THEN 0
    ELSE 10 * DecimalValue(SubSeq(t, 1, Len(t) - 1)) + DigitValue(t[Len(t)])

LeadingDigits(t) ==
    LET n == CHOOSE m \in 0..Len(t) :
                 /\ \A k \in 1..m : t[k] \in Digits
                 /\ (m < Len(t) => t[m + 1] \notin Digits)
    IN SubSeq(t, 1, n)

ParseInt(t) == IF LeadingDigits(t) = <<>> THEN NaN ELSE Num(DecimalValue(LeadingDigits(t)))

\* fs.createReadStream(path, {start, end}) on a file of size bytes: it throws
\* for a start or end that is no integer and for start > end; the stream
\* yields the bytes from start to end, as far as the file has them.
ReadStreamThrows(start, end) == start.nan \/ end.nan \/ start.v > end.v
ReadStreamBytes(size, start, end) ==
    LET last == IF end.v < size - 1 THEN end.v ELSE size - 1
    IN IF start.v > last THEN <<>> ELSE SubSeq(FileBytes(size), start.v + 1, last + 1)

\* ------------------------------------------------------------------------
\* Range file server: initial state
\* ------------------------------------------------------------------------
HttpInit ==
    /\ httpReq \in AudioRequests
    /\ httpRes = NoResponse

\* ------------------------------------------------------------------------
\* Range file server: the handler
\* ------------------------------------------------------------------------
\* The 206 response of the range branch.
RangeResponse(size, text) ==
    LET parts == SplitDash(ReplaceBytes(text))
        start == ParseInt(parts[1])
        end == IF Len(parts) >= 2 /\ parts[2] # <<>> THEN ParseInt(parts[2]) ELSE Num(size - 1)
        chunkSize == NumAdd(NumSub(end, start), Num(1))
        threw == ReadStreamThrows(start, end)
    IN [status |-> 206,
        contentRange |-> [start |-> start, end |-> end, size |-> size],
        contentLength |-> chunkSize,
        acceptRanges |-> TRUE,
        body |-> IF threw THEN <<>> ELSE ReadStreamBytes(size, start, end),
        threw |-> threw]

\* A full-content branch that stops streaming one byte before the end.
FullResponse_Truncated(size) ==
    [NoResponse EXCEPT !.status = 200, !.contentLength = Num(size),
                       !.acceptRanges = TRUE,
                       !.body = SubSeq(FileBytes(size), 1, size - 1)]

\* The 200 response of the full-content branch.
FullResponse(size) ==
    [NoResponse EXCEPT !.status = 200, !.contentLength = Num(size),
                       !.acceptRanges = TRUE, !.body = FileBytes(size)]

\* The handler without the fs.existsSync test.
AudioHandler_NoExistsCheck(req) ==
    IF req.path.kind \in {"undefined", "empty"}
    THEN [NoResponse EXCEPT !.status = 400]
    ELSE IF req.range.present /\ req.range.text # <<>>
    THEN RangeResponse(req.path.size, req.range.text)
    ELSE FullResponse(req.path.size)

\* expressApp.get("/audio", ...)
AudioHandler(req) ==
    IF req.path.kind \in {"undefined", "empty"}
    THEN [NoResponse EXCEPT !.status = 400]
    ELSE IF req.path.kind = "nofile"
    THEN [NoResponse EXCEPT !.status = 404]
    ELSE IF req.range.present /\ req.range.text # <<>>
    THEN RangeResponse(req.path.size, req.range.text)
    ELSE FullResponse(req.path.size)

GetAudio ==
    /\ httpRes = NoResponse
    /\ httpRes' = AudioHandler(httpReq)
    /\ UNCHANGED httpReq
    /\ NotHttp

HttpNext == GetAudio

\* ------------------------------------------------------------------------
\* Specifications
\* ------------------------------------------------------------------------
\* Each specification runs one component; the others stay as they start.
\* ------------------------------------------------------------------------
\* MIME type derivation
\* ------------------------------------------------------------------------
\* A path is a sequence of pieces: "/", ".", and pieces of letters and digits.
NamePieces == {".", "x", "mp3", "MP3", "wav", "Wav", "ogg", "m4a", "aac"}

\* The file names: every non-empty name but "." and "..".
FileNames == SeqUpTo(NamePieces, MaxNameLen) \ {<<>>, <<".">>, <<".", ".">>}

\* The directories of the absolute paths: the root, and a directory whose own
\* name ends in .mp3.
FileDirs == {<<"/">>, <<"/", "x", ".", "mp3", "/">>}

\* path.resolve(filePath) of a file: an absolute path without a trailing slash.
AbsoluteFilePaths == {d \o n : d \in FileDirs, n \in FileNames}

Undefined == "undefined"
Pending == "pending"

\* String.prototype.toLowerCase on an extension.
ToLowerCase(e) ==
    [k \in DOMAIN e |-> CASE e[k] = "MP3" -> "mp3"
                          [] e[k] = "Wav" -> "wav"
                          [] OTHER -> e[k]]

\* path.extname: the last portion of the path from its last "." on; empty
\* when it has no ".", when its only "." is its first character, and for "..".
extname(path) ==
    LET slashes == {k \in DOMAIN path : path[k] = "/"}
        startPart == IF slashes = {} THEN 1
                     ELSE (CHOOSE k \in slashes : \A j \in slashes : j <= k) + 1
        dots == {k \in startPart..Len(path) : path[k] = "."}
        startDot == CHOOSE k \in dots : \A j \in dots : j <= k
    IN IF dots = {} THEN <<>>
       ELSE IF startDot = startPart THEN <<>>
       ELSE IF SubSeq(path, startPart, Len(path)) = <<".", ".">> THEN <<>>
       ELSE SubSeq(path, startDot, Len(path))

\* const MIME_TYPES / const mimeTypes: the same table in both places.
MIME_TYPES ==
    (<<".", "mp3">> :> "audio/mpeg") @@ (<<".", "wav">> :> "audio/wav")
    @@ (<<".", "ogg">> :> "audio/ogg") @@ (<<".", "m4a">> :> "audio/mp4")
    @@ (<<".", "aac">> :> "audio/aac")

\* MIME_TYPES[ext]
Lookup(ext) == IF ext \in DOMAIN MIME_TYPES THEN MIME_TYPES[ext] ELSE Undefined

\* a ?? b
Coalesce(a, b) == IF a = Undefined THEN b ELSE a

\* readAudioAsDataUrl that looks the extension up as it is spelled.
readAudioAsDataUrl_CaseSensitive(filePath) ==
    Coalesce(Lookup(extname(filePath)), "audio/mpeg")

\* readAudioAsDataUrl: the MIME type of the data URL it returns.
readAudioAsDataUrl(filePath) ==
    Coalesce(Lookup(ToLowerCase(extname(filePath))), "audio/mpeg")

\* GET /audio: the Content-Type header.
contentType(absolutePath) ==
    Coalesce(Lookup(ToLowerCase(extname(absolutePath))), "application/octet-stream")

NoMime == [dataUrl |-> Pending, contentType |-> Pending]

\* No file is being served.
MimeIdle ==
    /\ mimePath = <<>>
    /\ mimeOut = NoMime

MimeInit ==
    /\ mimePath \in AbsoluteFilePaths
    /\ mimeOut = NoMime

\* load_audio reads the file into a data URL.
LoadAudioMime ==
    /\ mimeOut.dataUrl = Pending
    /\ mimeOut' = [mimeOut EXCEPT !.dataUrl = readAudioAsDataUrl(mimePath)]
    /\ UNCHANGED mimePath
    /\ NotMime

\* GET /audio serves the file.
GetAudioMime ==
    /\ mimeOut.contentType = Pending
    /\ mimeOut' = [mimeOut EXCEPT !.contentType = contentType(mimePath)]
    /\ UNCHANGED mimePath
    /\ NotMime

MimeNext == LoadAudioMime \/ GetAudioMime

Init ==
    /\ UiInit
    /\ MimeIdle
    /\ clock = 0 /\ fsFiles = {} /\ call = IdleCall /\ issued = {}
    /\ httpReq = [path |-> [kind |-> "undefined", size |-> 0], range |-> NoRange]
    /\ httpRes = NoResponse

Spec == Init /\ [][UiNext]_vars

InitServer ==
    /\ SrvInit
    /\ MimeIdle
    /\ variant = "lazy" /\ tracks = <<>> /\ activeItem = NoItem /\ isPlaying = FALSE
    /\ repeatMode = "none" /\ loadingTrackId = NULL /\ inflight = [i \in Ids |-> 0]
    /\ audioLoop = FALSE /\ initialized = FALSE /\ prevTracksLength = 0
    /\ endedListener = Closure(<<>>, NoItem, "none")
    /\ lastOp = Did("init", NULL, "none", NULL)
    /\ httpReq = [path |-> [kind |-> "undefined", size |-> 0], range |-> NoRange]
    /\ httpRes = NoResponse

SpecServer == InitServer /\ [][SrvNext]_vars

InitHttp ==
    /\ HttpInit
    /\ MimeIdle
    /\ variant = "lazy" /\ tracks = <<>> /\ activeItem = NoItem /\ isPlaying = FALSE
    /\ repeatMode = "none" /\ loadingTrackId = NULL /\ inflight = [i \in Ids |-> 0]
    /\ audioLoop = FALSE /\ initialized = FALSE /\ prevTracksLength = 0
    /\ endedListener = Closure(<<>>, NoItem, "none")
    /\ lastOp = Did("init", NULL, "none", NULL)
    /\ clock = 0 /\ fsFiles = {} /\ call = IdleCall /\ issued = {}

SpecHttp == InitHttp /\ [][HttpNext]_vars

InitMime ==
    /\ MimeInit
    /\ variant = "lazy" /\ tracks = <<>> /\ activeItem = NoItem /\ isPlaying = FALSE
    /\ repeatMode = "none" /\ loadingTrackId = NULL /\ inflight = [i \in Ids |-> 0]
    /\ audioLoop = FALSE /\ initialized = FALSE /\ prevTracksLength = 0
    /\ endedListener = Closure(<<>>, NoItem, "none")
    /\ lastOp = Did("init", NULL, "none", NULL)
    /\ clock = 0 /\ fsFiles = {} /\ call = IdleCall /\ issued = {}
    /\ httpReq = [path |-> [kind |-> "undefined", size |-> 0], range |-> NoRange]
    /\ httpRes = NoResponse

SpecMime == InitMime /\ [][MimeNext]_vars

\* ------------------------------------------------------------------------
\* Player UI: properties
\* ------------------------------------------------------------------------
\* The queue entries of track id all have a resolved source.
ResolvedIn(q, id) == \A k \in DOMAIN q : q[k].id = id => q[k].src # NULL
Resolved(id) == ResolvedIn(tracks, id)

\* The track 'ended' advances to, as handleEnded computes it from the state
\* in which the event arrives: the entry after the first entry carrying the
\* active id, for the last entry (or an id not in the queue) the first entry.
EndedIndex == FindIndex(tracks, activeItem.id)
NotLast == EndedIndex >= 1 /\ EndedIndex < Len(tracks)
AdvanceTarget == IF NotLast THEN tracks[EndedIndex + 1] ELSE tracks[1]

\* This step hands track t to loadAndPlayTrack / player.play: a resolved
\* track is played at once, for an unresolved one load_audio is called.
LoadAndPlayed(t) ==
    IF t.src # NULL
    THEN /\ activeItem'.id = t.id
         /\ isPlaying'
         /\ lastOp'.play = t.src
         /\ lastOp'.load = NULL
         /\ inflight' = inflight
    ELSE /\ lastOp'.load = t.id
         /\ lastOp'.play = "none"
         /\ inflight' = [inflight EXCEPT ![t.id] = @ + 1]
         /\ loadingTrackId' = t.id
         /\ activeItem' = activeItem
         /\ ~isPlaying'

\* A load that succeeds makes its track the active playing track.
LoadCompletionPlays ==
    lastOp'.op = "loadok" =>
        /\ activeItem'.id = lastOp'.id
        /\ isPlaying'
        /\ lastOp'.play = DataUrl
        /\ ResolvedIn(tracks', lastOp'.id)

\* C1: in the lazy variant every play is issued with a non-null source, and
\* whenever the player is playing, the active item and the queue entries of
\* the active track have a non-null source.
NeverPlayingWithoutSource ==
    variant = "lazy" =>
        /\ lastOp.play # NULL
        /\ isPlaying => /\ activeItem # NoItem
                        /\ activeItem.src # NULL
                        /\ HasId(tracks, activeItem.id)
                        /\ Resolved(activeItem.id)

PlayingAfterLoad ==
    /\ variant = "lazy"
    /\ isPlaying
    /\ lastOp.op = "loadok"
    /\ lastOp.play = DataUrl
    /\ activeItem.id = lastOp.id

\* C2: at most one load_audio call is outstanding at any time.
AtMostOneLoadInFlight == InflightTotal(inflight) <= 1

\* C3: no two entries of the queue share an id.
NoDuplicateIds ==
    \A j, k \in DOMAIN tracks : j # k => tracks[j].id # tracks[k].id

\* C6: the file of a track is read once: a load never completes with a
\* dataUrl for a track whose source is already resolved.
SourceResolvedOnce ==
    [][\A i \in Ids :
         (lastOp'.op = "loadok" /\ lastOp'.id = i /\ inflight'[i] < inflight[i])
            => \A k \in DOMAIN tracks : tracks[k].id = i => tracks[k].src = NULL]_vars

NoneEndedAdvancesOrStops ==
    [][/\ (lastOp'.op = "ended" /\ repeatMode = "none") =>
            IF NotLast THEN LoadAndPlayed(tracks[EndedIndex + 1])
            ELSE /\ lastOp'.play = "none"
                 /\ lastOp'.load = NULL
                 /\ inflight' = inflight
                 /\ loadingTrackId' = loadingTrackId
                 /\ activeItem' = activeItem
                 /\ ~isPlaying'
       /\ LoadCompletionPlays]_vars

StoppedAtEndOfQueue ==
    /\ variant = "lazy"
    /\ lastOp.op = "ended"
    /\ repeatMode = "none"
    /\ Len(tracks) >= 2
    /\ FindIndex(tracks, lastOp.id) = Len(tracks)
    /\ activeItem.id = lastOp.id
    /\ ~isPlaying

\* The batch a tool result carries, as ontoolresult parses it in this variant.
BatchesParsed == {parseTracksFromResult(variant, r) : r \in ToolResults}
AllPresent(q, B) == \A k \in DOMAIN B : HasId(q, B[k].id)

\* C12: the queue merge is idempotent. For the queue Q of every reachable
\* state and every batch B, merge(merge(Q,B),B) = merge(Q,B), and when every
\* id of B is in Q, merge(Q,B) = Q; and the queue ontoolresult has left is
\* unchanged by merging its batch again.
MergeIdempotent ==
    /\ \A B \in BatchesParsed :
          /\ Merge(Merge(tracks, B), B) = Merge(tracks, B)
          /\ AllPresent(tracks, B) => Merge(tracks, B) = tracks
    /\ lastOp.op = "toolresult" =>
          Merge(tracks, MapTracks(lastOp.batch,
                                  IF variant = "lazy" THEN NULL ELSE StreamUrl)) = tracks

\* A batch naming only the one track of the queue, which had been loaded
\* before, has been merged.
MergedKnownBatch ==
    /\ variant = "lazy"
    /\ lastOp.op = "toolresult"
    /\ Len(tracks) = 1
    /\ tracks[1].src = DataUrl
    /\ lastOp.batch = <<tracks[1].id, tracks[1].id>>

\* This step calls load_audio for track id.
LoadStarted(id) ==
    /\ lastOp'.load = id
    /\ lastOp'.play = "none"
    /\ inflight' = [inflight EXCEPT ![id] = @ + 1]
    /\ loadingTrackId' = id

\* C13: when a load fails (error result, result without dataUrl, rejected
\* call) the queue and with it the track's source is left as it was,
\* loadingTrackId is cleared, no play is issued and the active item and
\* isPlaying are unchanged; starting a load by a click or the play button
\* does not change the active item or isPlaying either; and every click or
\* play-button press on an unresolved track that is not marked loading calls
\* load_audio for it again.
LoadFailureHandled ==
    [][/\ lastOp'.op \in LoadFailKinds =>
             /\ tracks' = tracks
             /\ loadingTrackId' = NULL
             /\ lastOp'.play = "none"
             /\ lastOp'.load = NULL
             /\ activeItem' = activeItem
             /\ isPlaying' = isPlaying
             /\ inflight'[lastOp'.id] = inflight[lastOp'.id] - 1
       /\ (lastOp'.op \in {"click", "playpause"} /\ lastOp'.load # NULL) =>
             /\ activeItem' = activeItem
             /\ isPlaying' = isPlaying
       /\ (/\ variant = "lazy"
           /\ lastOp'.op \in {"click", "playpause"}
           /\ ~ResolvedIn(tracks, lastOp'.id)) => LoadStarted(lastOp'.id)]_vars

\* A load has failed while another track was playing: that track plays on
\* and the failed one is unresolved and not marked loading.
LoadFailedWhilePlaying ==
    /\ lastOp.op \in LoadFailKinds
    /\ HasId(tracks, lastOp.id)
    /\ ~Resolved(lastOp.id)
    /\ loadingTrackId = NULL
    /\ inflight[lastOp.id] = 0
    /\ isPlaying
    /\ activeItem.id # lastOp.id

\* C14: a failed submission leaves the queue as it was. An error result has no
\* parsable track list in either variant, and when ontoolresult has parsed no
\* track from its result, the queue after it is the queue before it, entry
\* by entry.
FailedSubmissionKeepsQueue ==
    [][/\ parseTracksFromResult(variant, ErrorToolResult) = <<>>
       /\ (lastOp'.op = "toolresult" /\ lastOp'.batch = <<>>) => tracks' = tracks]_vars

\* A result without tracks has arrived at a queue of several tracks, one of
\* them with its source resolved.
FailedSubmissionOnFilledQueue ==
    /\ lastOp.op = "toolresult"
    /\ lastOp.batch = <<>>
    /\ Len(tracks) >= 2
    /\ tracks[1].src # NULL
    /\ tracks[1].id # tracks[2].id

\* The load_audio call of lastOp'.id has settled in this step.
Settled == lastOp'.op \in LoadFailKinds \cup {"loadok"}

\* C17: loadingTrackId is released on every exit path. The step in which a
\* load_audio call settles (success, error result, missing dataUrl, rejected
\* call) leaves loadingTrackId null, and in every state with no load_audio
\* call outstanding loadingTrackId is null.
LoadingReleased ==
    [][/\ Settled => /\ loadingTrackId' = NULL
                     /\ inflight'[lastOp'.id] = inflight[lastOp'.id] - 1
       /\ InflightTotal(inflight) = 0 => loadingTrackId = NULL
       /\ InflightTotal(inflight') = 0 => loadingTrackId' = NULL]_vars

\* A load has settled with success and none is outstanding, while another
\* track of the queue is still unresolved.
AllLoadsSettled ==
    /\ variant = "lazy"
    /\ lastOp.op = "loadok"
    /\ InflightTotal(inflight) = 0
    /\ loadingTrackId = NULL
    /\ Len(tracks) = 2
    /\ tracks[1].id # tracks[2].id
    /\ Resolved(tracks[1].id)
    /\ ~Resolved(tracks[2].id)

\* C18: whenever loadingTrackId is set, it is the id of a track of the queue,
\* and the queue entries of that track have a null source.
LoadingIdUnresolved ==
    loadingTrackId # NULL =>
        /\ HasId(tracks, loadingTrackId)
        /\ \A k \in DOMAIN tracks :
              tracks[k].id = loadingTrackId => tracks[k].src = NULL

\* A track is marked loading while another track, loaded before, is playing.
LoadingBesidePlaying ==
    /\ loadingTrackId # NULL
    /\ inflight[loadingTrackId] > 0
    /\ isPlaying
    /\ activeItem.id # loadingTrackId
    /\ activeItem.src = DataUrl

\* C19: every step keeps each queue entry at its place with its id, and an
\* entry whose source is non-null keeps a non-null source.
TrackIdAndSourceStable ==
    [][\A k \in DOMAIN tracks :
          /\ k \in DOMAIN tracks'
          /\ tracks'[k].id = tracks[k].id
          /\ tracks[k].src # NULL => tracks'[k].src # NULL]_vars

\* A batch naming a track that is queued and loaded has been merged, and the
\* track has kept its source.
LoadedTrackResubmitted ==
    /\ variant = "lazy"
    /\ lastOp.op = "toolresult"
    /\ Len(tracks) = 2
    /\ tracks[1].src = DataUrl
    /\ tracks[2].src = NULL
    /\ lastOp.batch = <<tracks[2].id, tracks[1].id>>

\* C20: a play request (list click or play button) for a track whose source
\* is null calls load_audio for it, every such call is counted as
\* outstanding, and the step in which a
\* load_audio call succeeds makes its track the active item with the loaded
\* source and sets isPlaying, whatever the active item and isPlaying were
\* when the call returned.
PlayRequestCompletes ==
    [][/\ (/\ variant = "lazy"
           /\ lastOp'.op \in {"click", "playpause"}
           /\ ~ResolvedIn(tracks, lastOp'.id)) => lastOp'.load = lastOp'.id
       /\ lastOp'.load # NULL => inflight'[lastOp'.load] = inflight[lastOp'.load] + 1
       /\ (lastOp'.op = "loadok" /\ inflight'[lastOp'.id] < inflight[lastOp'.id]) =>
             /\ activeItem' = [id |-> lastOp'.id, src |-> DataUrl]
             /\ isPlaying'
             /\ lastOp'.play = DataUrl
             /\ ResolvedIn(tracks', lastOp'.id)]_vars

\* A load has succeeded and its track is the active playing one, although
\* another track had been requested since and is still loading.
LoadedTrackTookOver ==
    /\ lastOp.op = "loadok"
    /\ activeItem.id = lastOp.id
    /\ isPlaying
    /\ \E i \in Ids : i # lastOp.id /\ inflight[i] > 0 /\ HasId(tracks, i)

\* The place of call c in the calls of the last handler, 0 when it made none.
CallIndex(c) ==
    IF \E k \in DOMAIN lastOp.calls : lastOp.calls[k] = c
    THEN CHOOSE k \in DOMAIN lastOp.calls : lastOp.calls[k] = c
    ELSE 0

AutoAdvanceUsesLatest ==
    /\ endedListener = Closure(tracks, activeItem, repeatMode)
    /\ (lastOp.op = "ended" /\ repeatMode # "track") =>
          LET idx == FindIndex(tracks, lastOp.id)
          IN (idx >= 1 /\ idx < Len(tracks)) =>
                LET t == tracks[idx + 1]
                IN IF t.src # NULL
                   THEN lastOp.play = t.src /\ activeItem.id = t.id /\ isPlaying
                   ELSE lastOp.load = t.id /\ loadingTrackId = t.id

\* A track was playing as the last of the queue, a batch was appended, and
\* at the end of the track, with repeat mode none, the first appended track
\* has been played or is being loaded.
AdvancedIntoAppended ==
    /\ lastOp.op = "ended"
    /\ repeatMode = "none"
    /\ lastOp.appended >= 1
    /\ FindIndex(tracks, lastOp.id) = Len(tracks) - lastOp.appended
    /\ LET t == tracks[Len(tracks) - lastOp.appended + 1]
       IN /\ t.id # lastOp.id
          /\ \/ activeItem.id = t.id /\ isPlaying
             \/ lastOp.load = t.id /\ loadingTrackId = t.id

ClickOnlySelects ==
    [][(lastOp'.op = "click" /\ ~(activeItem.id = lastOp'.id /\ isPlaying)) =>
          IF ResolvedIn(tracks, lastOp'.id)
          THEN activeItem'.id = lastOp'.id /\ ~isPlaying'
          ELSE loadingTrackId' = lastOp'.id /\ isPlaying' = isPlaying]_vars

\* C25: with repeat mode track an 'ended' event issues no play and no load and
\* leaves the active item, the queue, loadingTrackId and the outstanding
\* loads as they are.
TrackModeEndedDoesNothing ==
    [][(lastOp'.op = "ended" /\ repeatMode = "track") =>
          /\ lastOp'.play = "none"
          /\ lastOp'.load = NULL
          /\ activeItem' = activeItem
          /\ tracks' = tracks
          /\ loadingTrackId' = loadingTrackId
          /\ inflight' = inflight]_vars

\* With repeat mode track the first of two tracks has ended and is still
\* the active one.
EndedInTrackMode ==
    /\ lastOp.op = "ended"
    /\ repeatMode = "track"
    /\ Len(tracks) >= 2
    /\ FindIndex(tracks, lastOp.id) = 1
    /\ tracks[2].id # tracks[1].id
    /\ activeItem.id = lastOp.id

\* The mode after mode m in the cycle none -> playlist -> track -> none.
NextInCycle(m) ==
    CASE m = "none" -> "playlist"
      [] m = "playlist" -> "track"
      [] m = "track" -> "none"

\* C26: repeatMode starts as none; a toggle moves it to the next mode of the
\* cycle none -> playlist -> track -> none, three toggles from any mode lead
\* back to it, and every other operation leaves it as it is.
RepeatModeCycles ==
    /\ repeatMode = "none"
    /\ [][/\ \A m \in RepeatModes :
                cycleRepeatMode(cycleRepeatMode(cycleRepeatMode(m))) = m
           /\ IF lastOp'.op = "repeat"
              THEN repeatMode' = NextInCycle(repeatMode)
              ELSE repeatMode' = repeatMode]_vars

\* The third toggle has brought the mode back to none.
RepeatModeBackAtNone ==
    /\ lastOp.op = "repeat"
    /\ repeatMode = "none"
    /\ ~audioLoop

\* C27: once the loop effect has run for the current repeat mode,
\* audio.loop is true exactly when repeatMode is track.
LoopFlagTracksRepeatMode == audioLoop = (repeatMode = "track")

\* A toggle has entered repeat-track and the loop flag is set.
LoopSetOnEnteringTrack ==
    /\ lastOp.op = "repeat"
    /\ repeatMode = "track"
    /\ audioLoop

NoTwoLoadsOfOneTrack == \A i \in Ids : inflight[i] <= 1

\* C31: whenever a load_audio call is outstanding, loadingTrackId is set:
\* the completion of one load never clears the mark of another.
LoadingIdCoversInflight == InflightTotal(inflight) > 0 => loadingTrackId # NULL

\* The completed load overlapped the load of another track: that one is
\* still outstanding, or it completed in the step before.
Overlapped ==
    \/ \E j \in Ids \ {lastOp.id} : inflight[j] > 0
    \/ lastOp.after # NULL

\* C32: when the loads of two different tracks overlap and succeed, each
\* completion plays its own track: after a completion the track just loaded
\* is the active playing one, so the one that completes last ends up playing,
\* whichever was requested first.
LastCompletionWins ==
    (lastOp.op = "loadok" /\ Overlapped) =>
        /\ lastOp.play = DataUrl
        /\ activeItem = [id |-> lastOp.id, src |-> DataUrl]
        /\ isPlaying

\* Two overlapping loads have completed one after the other; the second one
\* is playing.
SecondCompletionPlaying ==
    /\ lastOp.op = "loadok"
    /\ lastOp.after # NULL
    /\ lastOp.after # lastOp.id
    /\ InflightTotal(inflight) = 0
    /\ activeItem.id = lastOp.id
    /\ isPlaying
    /\ ResolvedIn(tracks, lastOp.after)

\* C33: a click or a play-button press that starts a load changes only
\* loadingTrackId (and the outstanding call): the active item, isPlaying, the
\* queue, the repeat mode and the loop flag stay as they were and no play is
\* issued. A load started by the 'ended' handler leaves the active item, the
\* queue and the repeat mode as they were as well.
LoadStartChangesOnlyLoadingId ==
    [][/\ (lastOp'.op \in {"click", "playpause"} /\ lastOp'.load # NULL) =>
             /\ loadingTrackId' = lastOp'.load
             /\ inflight' = [inflight EXCEPT ![lastOp'.load] = @ + 1]
             /\ lastOp'.play = "none"
             /\ activeItem' = activeItem
             /\ isPlaying' = isPlaying
             /\ tracks' = tracks
             /\ repeatMode' = repeatMode
             /\ audioLoop' = audioLoop
       /\ (lastOp'.op = "ended" /\ lastOp'.load # NULL) =>
             /\ loadingTrackId' = lastOp'.load
             /\ lastOp'.play = "none"
             /\ activeItem' = activeItem
             /\ tracks' = tracks
             /\ repeatMode' = repeatMode]_vars

\* A click has started the load of a track while another track goes on
\* playing as the active item.
ClickStartedLoadBesidePlaying ==
    /\ lastOp.op = "click"
    /\ lastOp.load # NULL
    /\ loadingTrackId = lastOp.load
    /\ isPlaying
    /\ activeItem.src = DataUrl
    /\ activeItem.id # lastOp.load

\* C34: when the load that the 'ended' handler started for the next track
\* fails, no other track is tried (no load and no play is issued), the ended
\* track is still the active item, nothing is playing and loadingTrackId is
\* clear, so that no 'ended' event can start a further load: only a click or
\* the play button can.
FailedAdvanceStops ==
    (lastOp.op \in LoadFailKinds /\ lastOp.advancedFrom # NULL) =>
        /\ lastOp.load = NULL
        /\ lastOp.play = "none"
        /\ activeItem.id = lastOp.advancedFrom
        /\ ~isPlaying
        /\ loadingTrackId = NULL
        /\ ~ENABLED Ended

\* With repeat-playlist the last track has ended and the load of the first
\* one, started by the wrap-around, has failed.
FailedWrapAround ==
    /\ lastOp.op \in LoadFailKinds
    /\ lastOp.advancedFrom # NULL
    /\ repeatMode = "playlist"
    /\ Len(tracks) = 2
    /\ tracks[2].id = lastOp.advancedFrom
    /\ tracks[1].id = lastOp.id
    /\ tracks[1].src = NULL
    /\ activeItem = tracks[2]
    /\ InflightTotal(inflight) = 0

\* C35: the queue is append-only. Every step keeps the ids of the previous
\* queue, in their order, as a prefix of the new queue; ontoolresult keeps
\* the previous entries as they are; a load completion keeps the length and
\* changes nothing but the source of the entries that carry the loaded id;
\* every other operation leaves the queue as it is.
QueueAppendOnly ==
    [][/\ Len(tracks') >= Len(tracks)
       /\ TrackIds(SubSeq(tracks', 1, Len(tracks))) = TrackIds(tracks)
       /\ lastOp'.op = "toolresult" => SubSeq(tracks', 1, Len(tracks)) = tracks
       /\ lastOp'.op = "loadok" =>
             /\ Len(tracks') = Len(tracks)
             /\ \A k \in DOMAIN tracks :
                   tracks'[k] = IF tracks[k].id = lastOp'.id
                                THEN [tracks[k] EXCEPT !.src = DataUrl]
                                ELSE tracks[k]
       /\ lastOp'.op \notin {"toolresult", "loadok"} => tracks' = tracks]_vars

\* The load of the second of two tracks has completed: its entry has the
\* source, the first entry is as it was.
OnlyLoadedEntryChanged ==
    /\ lastOp.op = "loadok"
    /\ Len(tracks) = 2
    /\ tracks[1].id # tracks[2].id
    /\ lastOp.id = tracks[2].id
    /\ tracks[2].src = DataUrl
    /\ tracks[1].src = NULL

\* C36: with repeat-playlist and a queue of exactly one track, an 'ended'
\* event replays that track: it is playing again from the source the queue
\* holds for it, no load_audio call is made or outstanding, and the active
\* item is the one that ended.
SingleTrackReplays ==
    (lastOp.op = "ended" /\ repeatMode = "playlist" /\ Len(tracks) = 1) =>
        /\ isPlaying
        /\ activeItem = tracks[1]
        /\ activeItem.id = lastOp.id
        /\ lastOp.play = tracks[1].src
        /\ lastOp.play \in {DataUrl, StreamUrl}
        /\ lastOp.load = NULL
        /\ loadingTrackId = NULL
        /\ InflightTotal(inflight) = 0

\* The only track of a lazy queue has ended and plays again.
SingleTrackReplayed ==
    /\ variant = "lazy"
    /\ lastOp.op = "ended"
    /\ repeatMode = "playlist"
    /\ Len(tracks) = 1
    /\ lastOp.id = tracks[1].id
    /\ lastOp.play = DataUrl
    /\ isPlaying

\* ------------------------------------------------------------------------
\* MCP server: properties
\* ------------------------------------------------------------------------
\* C4: the ids a tool call returns differ from every id returned by an
\* earlier call of the same process.
IdsNeverCollide ==
    call.status = "done" => ResultIds(call) \cap issued = {}

FailedChecks == {k \in DOMAIN call.checks : ~call.checks[k]}

\* C5: play_audio is all-or-nothing: when an existence check has failed, the
\* result is an error result without tracks that names the absolute path of
\* the first entry, in input order, whose check failed; it is an error result
\* only then.
AllOrNothing ==
    (call.tool = "play_audio" /\ call.status = "done") =>
        IF FailedChecks # {}
        THEN LET first == CHOOSE k \in FailedChecks : \A j \in FailedChecks : k <= j
             IN /\ call.result.isError
                /\ call.result.tracks = <<>>
                /\ call.result.errPath = Resolve(call.tracks[first].filePath)
        ELSE ~call.result.isError

RejectedAfterPassedEntry ==
    /\ call.tool = "play_audio"
    /\ call.status = "done"
    /\ call.result.isError
    /\ Len(call.checks) >= 2
    /\ call.checks[1]
    /\ call.tracks[1].filePath.dir = ""

\* C15: a successful play_audio returns one track per input entry, in input
\* order, each with the title and artist of its entry and the absolute path
\* resolved from the entry's filePath, and no two tracks of the result have
\* the same id.
PlayAudioSuccessShape ==
    (call.tool = "play_audio" /\ call.status = "done" /\ ~call.result.isError) =>
        LET out == call.result.tracks
        IN /\ Len(out) = Len(call.tracks)
           /\ \A k \in DOMAIN out :
                 /\ out[k].title = call.tracks[k].title
                 /\ out[k].artist = call.tracks[k].artist
                 /\ out[k].filePath = Resolve(call.tracks[k].filePath)
                 /\ out[k].filePath.dir # ""
           /\ \A j, k \in DOMAIN out : j # k => out[j].id # out[k].id

PlayAudioSucceededOnTwo ==
    /\ call.tool = "play_audio"
    /\ call.status = "done"
    /\ ~call.result.isError
    /\ Len(call.result.tracks) = 2
    /\ call.tracks[1].filePath.dir = ""
    /\ call.tracks[1].filePath # call.tracks[2].filePath
    /\ call.tracks[1].title # call.tracks[2].title

\* C16: play_audio and load_audio never end by throwing; when they have
\* returned, the result is either an isError result, which carries no tracks
\* and no dataUrl and names the absolute path that failed, or a success
\* result, which for load_audio carries the content of the resolved file,
\* whatever the file system did between the awaits.
NoUncaughtFault ==
    call.tool \in {"play_audio", "load_audio"} =>
        /\ call.status \in {"running", "done"}
        /\ call.status = "done" =>
              IF call.result.isError
              THEN /\ call.result.tracks = <<>>
                   /\ call.result.dataUrl = NoPath
                   /\ call.result.errPath \in AbsPaths
              ELSE /\ call.result.errPath = NoPath
                   /\ call.tool = "load_audio" =>
                         call.result.dataUrl = Resolve(call.tracks[1].filePath)

\* load_audio returned an error result after its existence check had passed:
\* the file was deleted before the read, or could not be read.
LoadAudioFailedAtRead ==
    /\ call.tool = "load_audio"
    /\ call.status = "done"
    /\ call.i = 1
    /\ call.result.isError
    /\ call.result.errPath = Resolve(call.tracks[1].filePath)

\* ------------------------------------------------------------------------
\* Range file server: properties
\* ------------------------------------------------------------------------
Handled == httpRes # NoResponse

AllDigits(t) == \A k \in DOMAIN t : t[k] \in Digits

\* The header reads bytes=<start>-<end> or bytes=<start>-.
WellFormedRange(t) ==
    /\ Len(t) >= 3
    /\ t[1] = "bytes="
    /\ \E d \in 3..Len(t) :
          /\ t[d] = "-"
          /\ AllDigits(SubSeq(t, 2, d - 1))
          /\ AllDigits(SubSeq(t, d + 1, Len(t)))

RangeDash(t) == CHOOSE d \in 3..Len(t) : t[d] = "-"
RangeStart(t) == DecimalValue(SubSeq(t, 2, RangeDash(t) - 1))
RangeEnd(t, size) ==
    IF RangeDash(t) = Len(t) THEN size - 1
    ELSE DecimalValue(SubSeq(t, RangeDash(t) + 1, Len(t)))

\* C9: a request for an existing file of N bytes with the header
\* bytes=<start>-<end> (end N-1 when left out) is answered with status 206,
\* Content-Range bytes start-end/N, Content-Length end - start + 1 and a body
\* of exactly the bytes start..end of the file.
RangeResponseExact ==
    (/\ Handled
     /\ httpReq.path.kind = "file"
     /\ httpReq.range.present
     /\ WellFormedRange(httpReq.range.text)) =>
        LET start == RangeStart(httpReq.range.text)
            end == RangeEnd(httpReq.range.text, httpReq.path.size)
        IN /\ httpRes.status = 206
           /\ httpRes.contentRange = [start |-> Num(start), end |-> Num(end),
                                      size |-> httpReq.path.size]
           /\ httpRes.contentLength = Num(end - start + 1)
           /\ ~httpRes.threw
           /\ httpRes.body = [k \in 1..(end - start + 1) |-> start + k - 1]

\* C10: the status follows a fixed precedence: 400 for a missing or empty
\* path parameter whatever else the request holds, otherwise 404 for a path
\* that does not exist, otherwise 206 with a Range header and 200 without
\* one (an empty Range header counts as none).
StatusPrecedence ==
    Handled =>
        httpRes.status =
            IF httpReq.path.kind \in {"undefined", "empty"} THEN 400
            ELSE IF httpReq.path.kind = "nofile" THEN 404
            ELSE IF httpReq.range.present /\ httpReq.range.text # <<>> THEN 206
            ELSE 200

NotFoundDespiteRange ==
    /\ Handled
    /\ httpReq.path.kind = "nofile"
    /\ httpReq.range.present
    /\ WellFormedRange(httpReq.range.text)
    /\ httpRes.status = 404

\* C11: a request without a Range header for an existing file of N bytes is
\* answered with status 200, Content-Length N, Accept-Ranges bytes, no
\* Content-Range, and a body of exactly the N bytes of the file in order.
FullResponseExact ==
    (Handled /\ httpReq.path.kind = "file" /\ ~httpReq.range.present) =>
        /\ httpRes.status = 200
        /\ httpRes.contentLength = Num(httpReq.path.size)
        /\ httpRes.acceptRanges
        /\ httpRes.contentRange = NoContentRange
        /\ ~httpRes.threw
        /\ Len(httpRes.body) = httpReq.path.size
        /\ \A k \in 1..httpReq.path.size : httpRes.body[k] = k - 1

WholeFileServed ==
    /\ Handled
    /\ httpReq.path.kind = "file"
    /\ httpReq.path.size = MaxFileSize
    /\ ~httpReq.range.present
    /\ httpRes.status = 200
    /\ Len(httpRes.body) = MaxFileSize

\* The header begins with bytes= and no digit follows it.
NoParsableStart(t) ==
    /\ t # <<>>
    /\ t[1] = "bytes="
    /\ (Len(t) = 1 \/ t[2] \notin Digits)

\* C28: a request for an existing file whose Range header has no parsable
\* start (bytes=-5, bytes=x) is answered with status 400 or 404 and never
\* with 206.
MalformedRangeRejected ==
    (/\ Handled
     /\ httpReq.path.kind = "file"
     /\ httpReq.range.present
     /\ NoParsableStart(httpReq.range.text)) =>
        httpRes.status \in {400, 404}

\* ------------------------------------------------------------------------
\* MIME type derivation: properties
\* ------------------------------------------------------------------------
\* The spellings of an extension that differ in case only.
Spellings(x) ==
    CASE x = "mp3" -> {"mp3", "MP3"}
      [] x = "wav" -> {"wav", "Wav"}
      [] OTHER -> {x}

\* The file name ends in .x, in any spelling, and has more before the dot.
HasExtension(p, x) ==
    /\ Len(p) >= 3
    /\ p[Len(p)] \in Spellings(x)
    /\ p[Len(p) - 1] = "."
    /\ p[Len(p) - 2] # "/"

\* The MIME type of a path by its extension alone, with the type for the
\* extensions that are none of the five.
ByExtension(p, other) ==
    IF HasExtension(p, "mp3") THEN "audio/mpeg"
    ELSE IF HasExtension(p, "wav") THEN "audio/wav"
    ELSE IF HasExtension(p, "ogg") THEN "audio/ogg"
    ELSE IF HasExtension(p, "m4a") THEN "audio/mp4"
    ELSE IF HasExtension(p, "aac") THEN "audio/aac"
    ELSE other

\* C37: the MIME type depends only on the extension of the file name, in
\* any case: .mp3, .wav, .ogg, .m4a and .aac give audio/mpeg, audio/wav,
\* audio/ogg, audio/mp4 and audio/aac in the data URL and in Content-Type
\* alike; every other extension, and a name without one, gives audio/mpeg
\* in the data URL and application/octet-stream in Content-Type.
MimeByExtension ==
    /\ mimeOut.dataUrl # Pending =>
          mimeOut.dataUrl = ByExtension(mimePath, "audio/mpeg")
    /\ mimeOut.contentType # Pending =>
          mimeOut.contentType = ByExtension(mimePath, "application/octet-stream")

\* A file with the extension .Wav, in a directory whose name ends in .mp3,
\* has got audio/wav from both.
UpperCaseExtensionTyped ==
    /\ mimePath = <<"/", "x", ".", "mp3", "/", "x", ".", "Wav">>
    /\ mimeOut.dataUrl = "audio/wav"
    /\ mimeOut.contentType = "audio/wav"

====
